---- MODULE Spec2Model ----
(***************************************************************************)
(* Parking lot core: InMemorySpotRepo / InMemorySessionRepo, the           *)
(* SimpleAllocator, the FlatPerHourCalculator with its factory, and the    *)
(* ParkingService coordinator (checkIn / checkOut).                        *)
(*                                                                         *)
(* Every async method is cut at its await points: the code between two    *)
(* awaits runs without interruption on the single JavaScript thread, so   *)
(* it is one action.  Spot and session objects are shared by reference    *)
(* between the repositories and the callers, so a field assignment on a   *)
(* held object is a write to the repository's record.                     *)
(*                                                                         *)
(* Times are milliseconds since the epoch.  Amounts are in tenths of the  *)
(* currency unit (0.5 is 5), so that all arithmetic is on integers.       *)
(* NULL stands for an absent (undefined / null) field or reference.       *)
(***************************************************************************)
EXTENDS Integers, Sequences, FiniteSets, TLC

\* ------------------------------------------------------------------ bounds
NSpots == 2
NProcs == 2
MaxSessions == 3
MaxCalls == 3
MaxTicks == 1
MaxRank == 2

\* --------------------------------------------------------- program values
NULL == -1
MsPerMinute == 60000
MinutesPerHour == 60

VehicleType == {"MOTORCYCLE", "CAR", "BUS"}
Plates == {"P1", "P2"}
VehicleDto == [plate : Plates, type : VehicleType]
\* the vehicles that arrive: one plate of every type and a second car
Vehicles == {v \in VehicleDto : v.plate = "P1" \/ v.type = "CAR"}
InitialStatus == {"AVAILABLE", "RESERVED"}
SpotStatus == {"AVAILABLE", "RESERVED", "OCCUPIED"}
Procs == 1..NProcs
SpotIdx == 1..NSpots
TickSteps == {1, 10 * MsPerMinute, 60 * MsPerMinute}

VARIABLES
  spots,      \* InMemorySpotRepo.spots: sequence of ParkingSpot records
  sessions,   \* InMemorySessionRepo.sessions: sequence of ParkingSession records
  clock,      \* the instant new Date() returns
  ticks,      \* how often the clock has advanced
  calls,      \* how many calls the concurrent callers have issued
  pc,         \* per call slot: the await point the call is suspended at
  loc,        \* per call slot: the locals of the suspended call
  result,     \* per call slot: what the settled call hands to its caller
  calcIn,     \* calculator test harness: the calculator and session under test
  calcOut     \* calculator test harness: the amount returned

vars == <<spots, sessions, clock, ticks, calls, pc, loc, result, calcIn, calcOut>>

Max(a, b) == IF a >= b THEN a ELSE b

Ceil_Truncating(a, b) == IF a >= 0 THEN a \div b ELSE -((-a) \div b)

\* Math.ceil(a / b) for b > 0; for a < 0 the quotient rounds toward zero.
Ceil(a, b) == IF a >= 0 THEN (a + b - 1) \div b ELSE -((-a) \div b)

\* ------------------------------------------------------------ fee policy
Rate(base, perHour, graceMinutes) ==
  [base |-> base, perHour |-> perHour, graceMinutes |-> graceMinutes]

FlatPerHourCalculator == Rate(10, 20, 10)

calculate_NoGrace(calc, session, now) ==
  LET entry == session.entryTime
      exit == IF session.exitTime = NULL THEN now ELSE session.exitTime
      minutes == Max(0, Ceil(exit - entry, MsPerMinute))
      hours == Max(0, Ceil(minutes, MinutesPerHour))
  IN  calc.base + (hours * calc.perHour)

calculate_WholeMinutes(calc, session, now) ==
  LET entry == session.entryTime
      exit == IF session.exitTime = NULL THEN now ELSE session.exitTime
      minutes == Max(0, ((exit - entry) \div MsPerMinute) - calc.graceMinutes)
      hours == Max(0, Ceil(minutes, MinutesPerHour))
  IN  calc.base + (hours * calc.perHour)

calculate(calc, session, now) ==
  LET entry == session.entryTime
      exit == IF session.exitTime = NULL THEN now ELSE session.exitTime
      minutes == Max(0, Ceil(exit - entry, MsPerMinute) - calc.graceMinutes)
      hours == Max(0, Ceil(minutes, MinutesPerHour))
  IN  calc.base + (hours * calc.perHour)

FeeCalculatorFactory_DefaultOnly(type) == FlatPerHourCalculator

FeeCalculatorFactory(type) ==
  CASE type = "MOTORCYCLE" -> Rate(5, 10, 15)
    [] type = "CAR" -> Rate(10, 20, 10)
    [] type = "BUS" -> Rate(20, 50, 0)
    [] OTHER -> FlatPerHourCalculator

\* ---------------------------------------------------------- repositories
SpotId(i) == <<"s1", "s2", "s3", "s4">>[i]
SpotCode(i) == <<"S1", "S2", "S3", "S4">>[i]

\* Array.prototype.filter keeps the order: a set of indexes in ascending order
RECURSIVE Ascending(_)
Ascending(S) ==
  IF S = {} THEN <<>>
  ELSE LET m == CHOOSE x \in S : \A y \in S : x <= y
       IN  <<m>> \o Ascending(S \ {m})

\* Array.prototype.find / findIndex over the indexes that match: the first
\* one, NULL if there is none
First(S) == IF S = {} THEN NULL ELSE CHOOSE x \in S : \A y \in S : x <= y

listAvailableBySize_AnySize(size) ==
  Ascending({i \in 1..Len(spots) : spots[i].status = "AVAILABLE"})

listAvailableBySize_AnyStatus(size) ==
  Ascending({i \in 1..Len(spots) : spots[i].size = size})

\* the spot objects the filter keeps, as references (indexes) in stored order
listAvailableBySize(size) ==
  Ascending({i \in 1..Len(spots) :
               spots[i].status = "AVAILABLE" /\ spots[i].size = size})

findById_FirstSpot(id) == First({i \in 1..Len(spots) : TRUE})

findById(id) == First({i \in 1..Len(spots) : spots[i].id = id})

update_Pushed(store, spot) == Append(store, spot)

\* update(spot): the stored record with spot.id is replaced by the object
update(store, spot) ==
  LET idx == First({i \in 1..Len(store) : store[i].id = spot.id})
  IN  IF idx # NULL THEN [store EXCEPT ![idx] = spot] ELSE store

create(s) == Append(sessions, s)

findActiveByPlate(plate) ==
  First({i \in 1..Len(sessions) :
           sessions[i].vehicle.plate = plate /\ sessions[i].exitTime = NULL})

close_FirstSession(store, id, exitTime, amount) ==
  IF store # <<>>
  THEN [store EXCEPT ![1].exitTime = exitTime, ![1].amount = amount]
  ELSE store

close_ExitTimeOnly(store, id, exitTime, amount) ==
  LET idx == First({i \in 1..Len(store) : store[i].id = id})
  IN  IF idx # NULL THEN [store EXCEPT ![idx].exitTime = exitTime] ELSE store

close(store, id, exitTime, amount) ==
  LET idx == First({i \in 1..Len(store) : store[i].id = id})
  IN  IF idx # NULL
      THEN [store EXCEPT ![idx].exitTime = exitTime, ![idx].amount = amount]
      ELSE store

\* ------------------------------------------------------------- allocator
\* candidates.sort((a,b) => a.distanceRank - b.distanceRank): a stable sort of
\* the references; insertion keeps equal ranks in their original order.
RECURSIVE InsertByRank_TiesFirst(_, _)
InsertByRank_TiesFirst(sorted, i) ==
  IF sorted = <<>> THEN <<i>>
  ELSE IF spots[i].distanceRank <= spots[Head(sorted)].distanceRank
       THEN <<i>> \o sorted
       ELSE <<Head(sorted)>> \o InsertByRank_TiesFirst(Tail(sorted), i)

RECURSIVE InsertByRank(_, _)
InsertByRank(sorted, i) ==
  IF sorted = <<>> THEN <<i>>
  ELSE IF spots[i].distanceRank < spots[Head(sorted)].distanceRank
       THEN <<i>> \o sorted
       ELSE <<Head(sorted)>> \o InsertByRank(Tail(sorted), i)

RECURSIVE SortByRank(_)
SortByRank(cands) ==
  IF cands = <<>> THEN <<>>
  ELSE InsertByRank(SortByRank(SubSeq(cands, 1, Len(cands) - 1)), cands[Len(cands)])

\* uuid(): an id no session in the ledger has yet
uuid == Len(sessions) + 1

occupy_UpToChosen(store, chosen) ==
  [i \in DOMAIN store |->
     IF i <= chosen THEN [store[i] EXCEPT !.status = "OCCUPIED"] ELSE store[i]]

\* allocate lines 14-15: chosen.status = 'OCCUPIED' on the shared object, then update
occupy(store, chosen) ==
  LET marked == [store EXCEPT ![chosen].status = "OCCUPIED"]
  IN  update(marked, marked[chosen])

free_EverySpot(store, spot) ==
  [i \in DOMAIN store |-> [store[i] EXCEPT !.status = "AVAILABLE"]]

free_NotStored(store, spot) == store

\* release lines 30-31: spot.status = 'AVAILABLE' on the shared object, then update
free(store, spot) ==
  LET marked == [store EXCEPT ![spot].status = "AVAILABLE"]
  IN  update(marked, marked[spot])

\* ------------------------------------------------------------ call slots
\* no vehicle given (the slot is idle or runs a checkOut)
NoVehicle == [plate |-> "", type |-> ""]
NoLocals == [vehicle |-> NoVehicle, candidates |-> <<>>, chosen |-> NULL,
             sessionId |-> NULL, session |-> NULL, amount |-> NULL,
             spotId |-> "", spot |-> NULL]
NoResult == [op |-> "none", status |-> "none", spotId |-> "", code |-> "",
             amount |-> NULL, vehicle |-> NoVehicle, sessionId |-> NULL]

Running(p) == pc[p] \notin {"idle", "settled"}
Quiescent == \A p \in Procs : pc[p] = "idle"

Settle(p, r) ==
  /\ pc' = [pc EXCEPT ![p] = "settled"]
  /\ loc' = [loc EXCEPT ![p] = NoLocals]
  /\ result' = [result EXCEPT ![p] = r]

Goto(p, label, l) ==
  /\ pc' = [pc EXCEPT ![p] = label]
  /\ loc' = [loc EXCEPT ![p] = l]
  /\ UNCHANGED result

\* ----------------------------------------------------- ParkingService.checkIn
\* checkIn -> allocate runs up to `await listAvailableBySize`: the filter has
\* already produced the candidate array when the call suspends.
CheckInCall(p, vehicle) ==
  /\ pc[p] = "idle"
  /\ pc' = [pc EXCEPT ![p] = "allocate_listed"]
  /\ loc' = [loc EXCEPT ![p] = [NoLocals EXCEPT !.vehicle = vehicle,
                                   !.candidates = listAvailableBySize(vehicle.type)]]
  /\ UNCHANGED <<spots, sessions, clock, ticks, result, calcIn, calcOut>>

AllocateChoose_WaitForSpot(p) ==
  /\ pc[p] = "allocate_listed"
  /\ Len(loc[p].candidates) > 0
  /\ LET chosen == SortByRank(loc[p].candidates)[1]
     IN  /\ spots' = occupy(spots, chosen)
         /\ Goto(p, "allocate_updated", [loc[p] EXCEPT !.chosen = chosen])
  /\ UNCHANGED <<sessions, clock, ticks, calls, calcIn, calcOut>>

\* allocate lines 11-15: NoSpace, or sort, take candidates[0], mark it
\* OCCUPIED on the shared object and call update; suspends at `await update`.
AllocateChoose(p) ==
  /\ pc[p] = "allocate_listed"
  /\ IF Len(loc[p].candidates) = 0
     THEN /\ Settle(p, [NoResult EXCEPT !.op = "checkIn", !.status = "NoSpace",
                                        !.vehicle = loc[p].vehicle])
          /\ UNCHANGED spots
     ELSE LET chosen == SortByRank(loc[p].candidates)[1]
          IN  /\ spots' = occupy(spots, chosen)
              /\ Goto(p, "allocate_updated", [loc[p] EXCEPT !.chosen = chosen])
  /\ UNCHANGED <<sessions, clock, ticks, calls, calcIn, calcOut>>

AllocateCreate_FirstSpotId(p) ==
  /\ pc[p] = "allocate_updated"
  /\ sessions' = create([id |-> uuid, vehicle |-> loc[p].vehicle,
                         spotId |-> spots[1].id,
                         entryTime |-> clock, exitTime |-> NULL, amount |-> NULL])
  /\ Goto(p, "allocate_created", loc[p])
  /\ UNCHANGED <<spots, clock, ticks, calls, calcIn, calcOut>>

\* allocate lines 17-23: build the session and push it; suspends at `await create`.
AllocateCreate(p) ==
  /\ pc[p] = "allocate_updated"
  /\ sessions' = create([id |-> uuid, vehicle |-> loc[p].vehicle,
                         spotId |-> spots[loc[p].chosen].id,
                         entryTime |-> clock, exitTime |-> NULL, amount |-> NULL])
  /\ Goto(p, "allocate_created", loc[p])
  /\ UNCHANGED <<spots, clock, ticks, calls, calcIn, calcOut>>

\* allocate returns chosen; checkIn returns { spotId: spot.id, code: spot.code }.
CheckInReturn(p) ==
  /\ pc[p] = "allocate_created"
  /\ Settle(p, [NoResult EXCEPT !.op = "checkIn", !.status = "ok",
                                !.spotId = spots[loc[p].chosen].id,
                                !.code = spots[loc[p].chosen].code,
                                !.vehicle = loc[p].vehicle])
  /\ UNCHANGED <<spots, sessions, clock, ticks, calls, calcIn, calcOut>>

\* ---------------------------------------------------- ParkingService.checkOut
\* checkOut suspends at `await sessions` holding only the array reference.
CheckOutCall(p, sessionId) ==
  /\ pc[p] = "idle"
  /\ pc' = [pc EXCEPT ![p] = "checkOut_awaited"]
  /\ loc' = [loc EXCEPT ![p] = [NoLocals EXCEPT !.sessionId = sessionId]]
  /\ UNCHANGED <<spots, sessions, clock, ticks, result, calcIn, calcOut>>

CheckOutClose_NoThrow(p) ==
  /\ pc[p] = "checkOut_awaited"
  /\ LET session ==
           First({i \in 1..Len(sessions) : sessions[i].id = loc[p].sessionId})
     IN  IF session = NULL
         THEN /\ Settle(p, [NoResult EXCEPT !.op = "checkOut", !.status = "ok",
                                            !.amount = 0,
                                            !.sessionId = loc[p].sessionId])
              /\ UNCHANGED sessions
         ELSE LET stamped == [sessions EXCEPT ![session].exitTime = clock]
                  calculator == FeeCalculatorFactory(stamped[session].vehicle.type)
                  amount == calculate(calculator, stamped[session], clock)
              IN  /\ sessions' = close(stamped, loc[p].sessionId,
                                       stamped[session].exitTime, amount)
                  /\ Goto(p, "checkOut_closed",
                          [loc[p] EXCEPT !.session = session, !.amount = amount])
  /\ UNCHANGED <<spots, clock, ticks, calls, calcIn, calcOut>>

\* checkOut lines 33-38: find by id in the live array; NotFound if absent;
\* stamp exitTime on the session object, compute the fee, call close.
CheckOutClose(p) ==
  /\ pc[p] = "checkOut_awaited"
  /\ LET session ==
           First({i \in 1..Len(sessions) : sessions[i].id = loc[p].sessionId})
     IN  IF session = NULL
         THEN /\ Settle(p, [NoResult EXCEPT !.op = "checkOut", !.status = "NotFound",
                                            !.sessionId = loc[p].sessionId])
              /\ UNCHANGED sessions
         ELSE LET stamped == [sessions EXCEPT ![session].exitTime = clock]
                  calculator == FeeCalculatorFactory(stamped[session].vehicle.type)
                  amount == calculate(calculator, stamped[session], clock)
              IN  /\ sessions' = close(stamped, loc[p].sessionId,
                                       stamped[session].exitTime, amount)
                  /\ Goto(p, "checkOut_closed",
                          [loc[p] EXCEPT !.session = session, !.amount = amount])
  /\ UNCHANGED <<spots, clock, ticks, calls, calcIn, calcOut>>

\* checkOut line 39 into release line 28: findById has run, release suspends.
ReleaseFind(p) ==
  /\ pc[p] = "checkOut_closed"
  /\ Goto(p, "release_found",
          [loc[p] EXCEPT !.spot = findById(sessions[loc[p].session].spotId)])
  /\ UNCHANGED <<spots, sessions, clock, ticks, calls, calcIn, calcOut>>

\* release lines 29-31: nothing for an unknown spot, else mark it AVAILABLE
\* on the shared object and call update.
ReleaseUpdate(p) ==
  /\ pc[p] = "release_found"
  /\ IF loc[p].spot = NULL
     THEN UNCHANGED spots
     ELSE spots' = free(spots, loc[p].spot)
  /\ Goto(p, "release_done", loc[p])
  /\ UNCHANGED <<sessions, clock, ticks, calls, calcIn, calcOut>>

\* checkOut line 40: return { amount }.
CheckOutReturn(p) ==
  /\ pc[p] = "release_done"
  /\ Settle(p, [NoResult EXCEPT !.op = "checkOut", !.status = "ok",
                                !.amount = loc[p].amount,
                                !.sessionId = loc[p].sessionId])
  /\ UNCHANGED <<spots, sessions, clock, ticks, calls, calcIn, calcOut>>

\* ------------------------------------------ SimpleAllocator.release, called
\* directly by a user of the allocator (IParkingSpotAllocator.release)
\* release line 28: findById has run on the given id, release suspends.
ReleaseCall(p, spotId) ==
  /\ pc[p] = "idle"
  /\ pc' = [pc EXCEPT ![p] = "release_lookup"]
  /\ loc' = [loc EXCEPT ![p] = [NoLocals EXCEPT !.spotId = spotId,
                                   !.spot = findById(spotId)]]
  /\ UNCHANGED <<spots, sessions, clock, ticks, result, calcIn, calcOut>>

\* release lines 29-31: return for an unknown spot, else mark it AVAILABLE on
\* the shared object and call update; suspends at `await update`.
ReleaseMark(p) ==
  /\ pc[p] = "release_lookup"
  /\ IF loc[p].spot = NULL
     THEN /\ Settle(p, [NoResult EXCEPT !.op = "release", !.status = "ok",
                                        !.spotId = loc[p].spotId])
          /\ UNCHANGED spots
     ELSE /\ spots' = free(spots, loc[p].spot)
          /\ Goto(p, "release_updated", loc[p])
  /\ UNCHANGED <<sessions, clock, ticks, calls, calcIn, calcOut>>

\* release line 32: the promise resolves with no value.
ReleaseReturn(p) ==
  /\ pc[p] = "release_updated"
  /\ Settle(p, [NoResult EXCEPT !.op = "release", !.status = "ok",
                                !.spotId = loc[p].spotId])
  /\ UNCHANGED <<spots, sessions, clock, ticks, calls, calcIn, calcOut>>

\* the caller's continuation takes the value or the error of the settled call
Resume(p) ==
  /\ pc[p] = "settled"
  /\ pc' = [pc EXCEPT ![p] = "idle"]
  /\ result' = [result EXCEPT ![p] = NoResult]
  /\ UNCHANGED <<spots, sessions, clock, ticks, calls, loc, calcIn, calcOut>>

\* ------------------------------------------------------------------ clock
Tick ==
  /\ ticks < MaxTicks
  /\ \E d \in TickSteps : clock' = clock + d
  /\ ticks' = ticks + 1
  /\ UNCHANGED <<spots, sessions, calls, pc, loc, result, calcIn, calcOut>>

\* ------------------------------------------------------------ inventories
ParkingSpot(i, size, status, rank) ==
  [id |-> SpotId(i), size |-> size, code |-> SpotCode(i), status |-> status,
   distanceRank |-> rank]

InventoriesOf(Sizes, Statuses, Ranks) ==
  { [i \in SpotIdx |-> ParkingSpot(i, f[i][1], f[i][2], f[i][3])] :
      f \in [SpotIdx -> Sizes \X Statuses \X Ranks] }

Inventories == InventoriesOf(VehicleType, InitialStatus, 1..MaxRank)

\* inventories of the concurrent runs: every spot free and equally near
ConcurrentInventories == InventoriesOf(VehicleType, {"AVAILABLE"}, {1})

NoCalc == [calc |-> Rate(0, 0, 0), entryTime |-> 0, exitTime |-> NULL, now |-> 0]

\* new InMemorySpotRepo(initial), new InMemorySessionRepo(), no call issued
Constructed(initial) ==
  /\ spots \in initial
  /\ sessions = <<>>
  /\ clock = 0
  /\ ticks = 0
  /\ calls = 0
  /\ pc = [p \in Procs |-> "idle"]
  /\ loc = [p \in Procs |-> NoLocals]
  /\ result = [p \in Procs |-> NoResult]

Init == Constructed(Inventories) /\ calcIn = NoCalc /\ calcOut = NULL

InitConcurrent ==
  Constructed(ConcurrentInventories) /\ calcIn = NoCalc /\ calcOut = NULL

SessionIds == 1..(MaxSessions + 1)

Step(p) ==
  \/ AllocateChoose(p)
  \/ AllocateCreate(p)
  \/ CheckInReturn(p)
  \/ CheckOutClose(p)
  \/ ReleaseFind(p)
  \/ ReleaseUpdate(p)
  \/ CheckOutReturn(p)
  \/ Resume(p)

\* one caller: a call is issued only after the previous one has settled and
\* its result has been taken
Next ==
  \/ \E v \in Vehicles :
        /\ Quiescent /\ Len(sessions) < MaxSessions
        /\ CheckInCall(1, v) /\ UNCHANGED calls
  \/ \E id \in SessionIds : Quiescent /\ CheckOutCall(1, id) /\ UNCHANGED calls
  \/ Step(1)
  \/ Tick

Spec == Init /\ [][Next]_vars

\* concurrent callers: a call is issued while other calls are suspended
Issue(p) ==
  /\ calls < MaxCalls
  /\ \/ \E v \in Vehicles : CheckInCall(p, v)
     \/ \E id \in 1..MaxCalls : CheckOutCall(p, id)

NextConcurrent ==
  \/ \E p \in Procs : Issue(p) /\ calls' = calls + 1
  \/ \E p \in Procs : Step(p)
  \/ Tick

SpecConcurrent == InitConcurrent /\ [][NextConcurrent]_vars

\* ----------------------------------------------- the allocator on its own
\* allocate (through checkIn) and release called directly, one call at a
\* time; release is given the id of a stored spot or an id no spot has.
ReleaseArgs == {SpotId(i) : i \in 1..(NSpots + 1)}

StepAllocator(p) ==
  \/ AllocateChoose(p)
  \/ AllocateCreate(p)
  \/ CheckInReturn(p)
  \/ ReleaseMark(p)
  \/ ReleaseReturn(p)
  \/ Resume(p)

NextAllocator ==
  \/ \E v \in Vehicles :
        /\ Quiescent /\ Len(sessions) < MaxSessions
        /\ CheckInCall(1, v) /\ UNCHANGED calls
  \/ \E id \in ReleaseArgs : Quiescent /\ ReleaseCall(1, id) /\ UNCHANGED calls
  \/ StepAllocator(1)

SpecAllocator == Init /\ [][NextAllocator]_vars

\* -------------------------------------------------- the ledger on its own
\* InMemorySessionRepo.create and close called directly, one call at a time.
\* Neither method has an await inside: the whole body runs when the method
\* is called and the promise it returns is already resolved.
LedgerSessions ==
  {[id |-> i, vehicle |-> v, spotId |-> SpotId(1), entryTime |-> 0,
    exitTime |-> NULL, amount |-> NULL] :
     i \in 1..2, v \in {w \in Vehicles : w.plate = "P1" /\ w.type # "MOTORCYCLE"}}
LedgerIds == 1..3
LedgerExits == {0, 10 * MsPerMinute}
LedgerAmounts == {10, 30}

CreateCall(p, s) ==
  /\ pc[p] = "idle"
  /\ sessions' = create(s)
  /\ Settle(p, [NoResult EXCEPT !.op = "create", !.status = "ok",
                                !.sessionId = s.id])
  /\ UNCHANGED <<spots, clock, ticks, calls, calcIn, calcOut>>

CloseCall(p, id, exitTime, amount) ==
  /\ pc[p] = "idle"
  /\ sessions' = close(sessions, id, exitTime, amount)
  /\ Settle(p, [NoResult EXCEPT !.op = "close", !.status = "ok",
                                !.sessionId = id])
  /\ UNCHANGED <<spots, clock, ticks, calls, calcIn, calcOut>>

InitLedger == Constructed({<<>>}) /\ calcIn = NoCalc /\ calcOut = NULL

NextLedger ==
  \/ \E s \in LedgerSessions : Len(sessions) < MaxSessions /\ CreateCall(1, s)
  \/ \E id \in LedgerIds, x \in LedgerExits, a \in LedgerAmounts :
        CloseCall(1, id, x, a)
  \/ Resume(1)

SpecLedger == InitLedger /\ [][NextLedger]_vars

\* -------------------------------------------------- calculator on its own
\* The calculator is exercised as the unit test does: a calculator is built
\* from a rate, a session is given entry and exit instants (or no exit, and
\* then the current instant counts), and calculate is applied once.
Rates == {Rate(b, h, g) : b \in {5, 10, 20}, h \in {10, 20, 50}, g \in {0, 10, 15}}
Entries == {0, 1, 30 * MsPerMinute}
Instants ==
  {m * MsPerMinute + e : m \in {0, 10, 15, 30, 40, 60, 70, 75, 130}, e \in {0, 1}}
CalcInputs ==
  {[calc |-> r, entryTime |-> e, exitTime |-> x, now |-> n] :
     r \in Rates, e \in Entries, x \in Instants \cup {NULL},
     n \in {30 * MsPerMinute, 70 * MsPerMinute + 1}}

InitCalc == Constructed({<<>>}) /\ calcIn \in CalcInputs /\ calcOut = NULL

Calculate ==
  /\ calcOut = NULL
  /\ calcOut' = calculate(calcIn.calc, calcIn, calcIn.now)
  /\ UNCHANGED <<spots, sessions, clock, ticks, calls, pc, loc, result, calcIn>>

NextCalc == Calculate

SpecCalc == InitCalc /\ [][NextCalc]_vars

\* ------------------------------------------- fee policy selection on its own
\* checkOut's lines 35-37 on one session object: the exit instant is stamped,
\* the calculator is resolved from the session's vehicle type and applied.
\* At run time the type is any string, the three declared ones or another.
OtherTypes == {"TRUCK"}
PolicyInputs ==
  {[vehicle |-> [plate |-> "P1", type |-> t], entryTime |-> e,
    exitTime |-> NULL, now |-> n] :
     t \in VehicleType \cup OtherTypes, e \in Entries, n \in Instants}

InitPolicy == Constructed({<<>>}) /\ calcIn \in PolicyInputs /\ calcOut = NULL

ResolveAndCalculate ==
  /\ calcOut = NULL
  /\ LET session == [calcIn EXCEPT !.exitTime = calcIn.now]
         calculator == FeeCalculatorFactory(session.vehicle.type)
     IN  /\ calcIn' = session
         /\ calcOut' = calculate(calculator, session, calcIn.now)
  /\ UNCHANGED <<spots, sessions, clock, ticks, calls, pc, loc, result>>

NextPolicy == ResolveAndCalculate

SpecPolicy == InitPolicy /\ [][NextPolicy]_vars

\* ================================================================ claims
IsOpen(s) == s.exitTime = NULL
OpenOn(spotId) ==
  {j \in 1..Len(sessions) : IsOpen(sessions[j]) /\ sessions[j].spotId = spotId}
NoCallInFlight == \A p \in Procs : ~Running(p)
Moved(p) == pc'[p] # pc[p]
SessionOf(sessionId) ==
  {j \in 1..Len(sessions) : sessions[j].id = sessionId}

\* C1: once every issued checkIn and checkOut has completed, a spot is
\* OCCUPIED if and only if exactly one open session references it by spotId.
C1_OccupiedIffOneOpenSession ==
  NoCallInFlight =>
    \A i \in 1..Len(spots) :
      (spots[i].status = "OCCUPIED") <=> (Cardinality(OpenOn(spots[i].id)) = 1)

\* C2: a checkOut issued on a session that is already closed fails with
\* NotFound, returns no amount, and leaves every session (its exitTime and
\* amount included) and every spot as they were.
C2_ClosedSessionCheckOutFails ==
  [][\A p \in Procs :
       ( /\ pc[p] = "checkOut_awaited" /\ Moved(p)
         /\ \E j \in SessionOf(loc[p].sessionId) : ~IsOpen(sessions[j]) )
       => /\ pc'[p] = "settled"
          /\ result'[p].status = "NotFound"
          /\ result'[p].amount = NULL
          /\ sessions' = sessions
          /\ spots' = spots]_vars

\* C3: two allocate calls in flight at the same time never hold the same
\* chosen spot.
C3_ConcurrentAllocateDistinctSpots ==
  \A p, q \in Procs :
    (p # q /\ loc[p].chosen # NULL /\ loc[q].chosen # NULL)
      => loc[p].chosen # loc[q].chosen

\* C4: no two open sessions share the same spotId.
C4_OneOpenSessionPerSpot ==
  \A i, j \in 1..Len(sessions) :
    (i # j /\ IsOpen(sessions[i]) /\ IsOpen(sessions[j]))
      => sessions[i].spotId # sessions[j].spotId

\* the spots that are AVAILABLE and of the given size, as a set
Matching(type) ==
  {i \in 1..Len(spots) : spots[i].status = "AVAILABLE" /\ spots[i].size = type}
Chooses(p) == pc[p] = "allocate_listed" /\ pc'[p] = "allocate_updated"

\* C5: the spot allocate selects is AVAILABLE and of the vehicle's type, no
\* matching spot has a smaller distanceRank, and no matching spot of the same
\* distanceRank is stored before it.
C5_NearestFirstStored ==
  [][\A p \in Procs :
       Chooses(p) =>
         LET c == loc'[p].chosen
             M == Matching(loc[p].vehicle.type)
         IN  /\ c \in M
             /\ \A i \in M :
                  /\ spots[c].distanceRank <= spots[i].distanceRank
                  /\ spots[i].distanceRank = spots[c].distanceRank => c <= i]_vars

\* a spot was chosen while an equally near candidate is stored after it
C5_TieWitness ==
  \E p \in Procs :
    /\ pc[p] = "allocate_updated"
    /\ \E k \in 1..Len(loc[p].candidates) :
         /\ loc[p].candidates[k] > loc[p].chosen
         /\ spots[loc[p].candidates[k]].distanceRank
              = spots[loc[p].chosen].distanceRank

\* C6: a checkIn for a type with no AVAILABLE spot of that size settles with
\* NoSpace, and neither issuing it nor failing it changes a spot or a session.
C6_NoSpaceChangesNothing ==
  [][\A p \in Procs :
       /\ (pc[p] = "idle" /\ pc'[p] = "allocate_listed")
            => (spots' = spots /\ sessions' = sessions)
       /\ (pc[p] = "allocate_listed" /\ Moved(p)
             /\ Matching(loc[p].vehicle.type) = {})
            => /\ pc'[p] = "settled"
               /\ result'[p].status = "NoSpace"
               /\ result'[p].spotId = ""
               /\ spots' = spots
               /\ sessions' = sessions]_vars

\* a car was refused because the only car spots are taken by open sessions
C6_ExhaustedWitness ==
  \E p \in Procs :
    /\ pc[p] = "settled"
    /\ result[p].status = "NoSpace"
    /\ result[p].vehicle.type = "CAR"
    /\ \E i \in 1..Len(spots) :
         spots[i].size = "CAR" /\ spots[i].status = "OCCUPIED"

C8_AllocateEffects ==
  [][\A p \in Procs :
       /\ Chooses(p) =>
            /\ spots' = [spots EXCEPT ![loc'[p].chosen].status = "OCCUPIED"]
            /\ sessions' = sessions
       /\ (pc[p] = "allocate_updated" /\ Moved(p)) =>
            /\ spots' = spots
            /\ Len(sessions') = Len(sessions) + 1
            /\ SubSeq(sessions', 1, Len(sessions)) = sessions
            /\ LET new == sessions'[Len(sessions')]
               IN  /\ new.spotId = spots[loc[p].chosen].id
                   /\ new.vehicle = loc[p].vehicle
                   /\ new.entryTime = clock
                   /\ IsOpen(new) /\ new.amount = NULL
                   /\ SessionOf(new.id) = {}
       /\ (pc[p] = "allocate_created" /\ Moved(p)) =>
            /\ spots' = spots /\ sessions' = sessions
            /\ result'[p].status = "ok"
            /\ result'[p].spotId = spots[loc[p].chosen].id
            /\ result'[p].code = spots[loc[p].chosen].code
            /\ findById(result'[p].spotId) = loc[p].chosen
            /\ spots[findById(result'[p].spotId)].status = "OCCUPIED"
            /\ sessions[Len(sessions)].spotId = result'[p].spotId]_vars

\* a checkIn succeeded with an earlier session in the ledger and another
\* spot left AVAILABLE
C8_SecondCheckInWitness ==
  \E p \in Procs :
    /\ pc[p] = "settled"
    /\ result[p].op = "checkIn" /\ result[p].status = "ok"
    /\ Len(sessions) >= 2
    /\ sessions[Len(sessions)].spotId = result[p].spotId
    /\ \E i \in 1..Len(spots) :
         spots[i].id # result[p].spotId /\ spots[i].status = "AVAILABLE"

\* C9: when a checkOut has succeeded, the amount returned is the amount on
\* the session and at least the base rate of the vehicle's type, the session
\* is closed with exitTime >= entryTime, and the session's spot is AVAILABLE
\* and among the spots a checkIn of that type lists.
C9_RoundTrip ==
  \A p \in Procs :
    (pc[p] = "settled" /\ result[p].op = "checkOut" /\ result[p].status = "ok")
      => /\ SessionOf(result[p].sessionId) # {}
         /\ \A j \in SessionOf(result[p].sessionId) :
              /\ result[p].amount = sessions[j].amount
              /\ result[p].amount
                   >= FeeCalculatorFactory(sessions[j].vehicle.type).base
              /\ ~IsOpen(sessions[j])
              /\ sessions[j].exitTime >= sessions[j].entryTime
              /\ \E i \in Matching(sessions[j].vehicle.type) :
                   spots[i].id = sessions[j].spotId

\* a checkOut succeeded after time had passed, charging more than the base rate
C9_ChargedWitness ==
  \E p \in Procs :
    /\ pc[p] = "settled" /\ result[p].op = "checkOut" /\ result[p].status = "ok"
    /\ \E j \in SessionOf(result[p].sessionId) :
         /\ sessions[j].exitTime > sessions[j].entryTime
         /\ result[p].amount > FeeCalculatorFactory(sessions[j].vehicle.type).base

\* the least integer k with k * b >= a
CeilingOf(a, b) == CHOOSE k \in -200..200 : k * b >= a /\ (k - 1) * b < a

\* C10: calculate returns base + ceil(max(0, max(0, ceil(elapsed minutes))
\* - graceMinutes) / 60) * perHour; with rate (1, 2, 10) and 30 elapsed
\* minutes the amount is 3 (30 tenths).
C10_FeeFormula ==
  calcOut # NULL =>
    LET exit == IF calcIn.exitTime = NULL THEN calcIn.now ELSE calcIn.exitTime
        elapsed == CeilingOf(exit - calcIn.entryTime, MsPerMinute)
        billable == Max(0, Max(0, elapsed) - calcIn.calc.graceMinutes)
    IN  /\ calcOut = calcIn.calc.base + CeilingOf(billable, 60) * calcIn.calc.perHour
        /\ (calcIn.calc = Rate(10, 20, 10)
              /\ exit - calcIn.entryTime = 30 * MsPerMinute) => calcOut = 30

\* the unit test's case: rate (1, 2, 10), 30 minutes, amount 3
C10_TestCaseWitness ==
  /\ calcOut = 30
  /\ calcIn.calc = Rate(10, 20, 10)
  /\ calcIn.exitTime - calcIn.entryTime = 30 * MsPerMinute

\* the duration the calculator bills for, in milliseconds
Elapsed ==
  (IF calcIn.exitTime = NULL THEN calcIn.now ELSE calcIn.exitTime) - calcIn.entryTime

\* C11: for a duration of at most graceMinutes minutes (zero and negative
\* durations included) calculate returns exactly the base rate.
C11_WithinGraceIsBase ==
  (calcOut # NULL /\ Elapsed <= calcIn.calc.graceMinutes * MsPerMinute)
    => calcOut = calcIn.calc.base

\* a positive duration of exactly graceMinutes minutes was billed
C11_AtGraceWitness ==
  /\ calcOut # NULL
  /\ calcIn.calc.graceMinutes > 0
  /\ Elapsed = calcIn.calc.graceMinutes * MsPerMinute

\* C12: for a duration above graceMinutes and at most graceMinutes + 60
\* minutes, measured in milliseconds, calculate returns base + perHour.
C12_FirstHourIsOneHour ==
  ( /\ calcOut # NULL
    /\ Elapsed > calcIn.calc.graceMinutes * MsPerMinute
    /\ Elapsed <= (calcIn.calc.graceMinutes + 60) * MsPerMinute )
    => calcOut = calcIn.calc.base + calcIn.calc.perHour

\* a duration one millisecond above the grace period was billed
C12_JustAboveGraceWitness ==
  /\ calcOut # NULL
  /\ Elapsed = calcIn.calc.graceMinutes * MsPerMinute + 1

\* a duration of exactly graceMinutes + 60 minutes was billed
C12_FullHourReached ==
  /\ calcOut # NULL
  /\ Elapsed = (calcIn.calc.graceMinutes + 60) * MsPerMinute

\* C13: a checkOut whose sessionId matches no session settles with NotFound
\* and no amount, and neither issuing it nor failing it changes a spot or a
\* session.
C13_UnknownSessionNotFound ==
  [][\A p \in Procs :
       /\ (pc[p] = "idle" /\ pc'[p] = "checkOut_awaited")
            => (spots' = spots /\ sessions' = sessions)
       /\ (pc[p] = "checkOut_awaited" /\ Moved(p)
             /\ SessionOf(loc[p].sessionId) = {})
            => /\ pc'[p] = "settled"
               /\ result'[p].op = "checkOut"
               /\ result'[p].status = "NotFound"
               /\ result'[p].amount = NULL
               /\ spots' = spots
               /\ sessions' = sessions]_vars

\* a checkOut of an id the ledger does not hold failed while the ledger holds
\* an open session
C13_UnknownIdWitness ==
  \E p \in Procs :
    /\ pc[p] = "settled"
    /\ result[p].op = "checkOut" /\ result[p].status = "NotFound"
    /\ SessionOf(result[p].sessionId) = {}
    /\ \E j \in 1..Len(sessions) : IsOpen(sessions[j])

OpenOfPlate(plate) ==
  {j \in 1..Len(sessions) : IsOpen(sessions[j]) /\ sessions[j].vehicle.plate = plate}

\* C14: a checkIn for a plate that has an open session settles with
\* DuplicateActiveSession and changes no spot and no session, and no plate
\* ever has more than one open session.
C14_DuplicatePlateRejected ==
  [][/\ \A p \in Procs :
          (pc[p] = "allocate_listed" /\ Moved(p)
             /\ OpenOfPlate(loc[p].vehicle.plate) # {})
            => /\ pc'[p] = "settled"
               /\ result'[p].status = "DuplicateActiveSession"
               /\ spots' = spots
               /\ sessions' = sessions
     /\ \A plate \in Plates : Cardinality(OpenOfPlate(plate)') <= 1]_vars

\* the event loop runs every queued continuation: a suspended call whose
\* awaited promise has resolved is resumed
SpecConcurrentFair == SpecConcurrent /\ \A p \in Procs : WF_vars(Step(p))

\* C15: every call that has been started settles, with its value or with
\* NoSpace / NotFound, whatever the other calls do.
C15_EveryCallSettles ==
  \A p \in Procs :
    Running(p) ~> (pc[p] = "settled"
                     /\ result[p].status \in {"ok", "NoSpace", "NotFound"})

\* a checkIn failed with NoSpace while another call is still suspended
C15_SettledBesideRunningWitness ==
  \E p, q \in Procs :
    /\ pc[p] = "settled" /\ result[p].status = "NoSpace"
    /\ Running(q)

\* every OCCUPIED spot is referenced by an open session
NoHalfDoneCall ==
  \A i \in 1..Len(spots) :
    spots[i].status = "OCCUPIED" => OpenOn(spots[i].id) # {}

\* C16: whenever a call reads the repositories (a checkIn listing the spots,
\* a checkOut looking its session up) it sees no spot that is OCCUPIED without
\* an open session: neither the state between another allocate's spot update
\* and session creation nor the one between another checkOut's close and
\* release.
C16_NoHalfDoneCallObserved ==
  [][\A q \in Procs :
       ( \/ pc[q] = "idle" /\ pc'[q] = "allocate_listed"
         \/ pc[q] = "checkOut_awaited" /\ Moved(q) )
       => NoHalfDoneCall]_vars

\* C17: no step removes a session or changes the id, vehicle, spotId or
\* entryTime of one, and a session whose exitTime and amount have been set
\* keeps them.
C17_LedgerAppendOnlyClosedOnce ==
  [][/\ Len(sessions') >= Len(sessions)
     /\ \A j \in 1..Len(sessions) :
          /\ sessions'[j].id = sessions[j].id
          /\ sessions'[j].vehicle = sessions[j].vehicle
          /\ sessions'[j].spotId = sessions[j].spotId
          /\ sessions'[j].entryTime = sessions[j].entryTime
          /\ ~IsOpen(sessions[j]) => sessions'[j] = sessions[j]]_vars

\* C18: in every state, between any two steps of any calls, a session has
\* an exitTime if and only if it has an amount.
C18_ExitTimeIffAmount ==
  \A j \in 1..Len(sessions) :
    (sessions[j].exitTime = NULL) <=> (sessions[j].amount = NULL)

\* a checkOut is suspended after closing its session, beside another call in
\* flight and another session still open
C18_InsideCheckOutWitness ==
  \E p, q \in Procs :
    /\ pc[p] = "checkOut_closed" /\ Running(q) /\ p # q
    /\ \E i, j \in 1..Len(sessions) :
         ~IsOpen(sessions[i]) /\ IsOpen(sessions[j])

\* the fee for a stay from entry to exit at a rate, by the rule of the policy
FeeOf(entry, exit, rate) ==
  LET elapsed == CeilingOf(exit - entry, MsPerMinute)
      billable == Max(0, Max(0, elapsed) - rate.graceMinutes)
  IN  rate.base + CeilingOf(billable, 60) * rate.perHour

\* the fee the ledger's j-th session is due, from what the session records
FeeDue(store, j) ==
  FeeOf(store[j].entryTime, store[j].exitTime,
        FeeCalculatorFactory(store[j].vehicle.type))

\* C19: checkOut stamps the exitTime and stores the fee for the session's own
\* entryTime, that exitTime and its vehicle type's rate while the spot is
\* still untouched; when the spot is released the session is closed with that
\* amount; the amount returned is the amount stored.
C19_FeeBeforeRelease ==
  [][\A p \in Procs :
       /\ (pc[p] = "checkOut_awaited" /\ pc'[p] = "checkOut_closed") =>
            LET j == loc'[p].session
            IN  /\ SessionOf(loc[p].sessionId) = {j}
                /\ sessions'[j].entryTime = sessions[j].entryTime
                /\ sessions'[j].exitTime = clock
                /\ sessions'[j].amount = FeeDue(sessions', j)
                /\ loc'[p].amount = sessions'[j].amount
                /\ spots' = spots
       /\ (pc[p] = "release_found" /\ Moved(p)) =>
            LET j == loc[p].session
            IN  /\ ~IsOpen(sessions[j])
                /\ sessions[j].amount = loc[p].amount
                /\ sessions' = sessions
                /\ \A i \in 1..Len(spots) :
                     spots[i].id = sessions[j].spotId
                       => spots'[i].status = "AVAILABLE"
       /\ (pc[p] = "release_done" /\ Moved(p)) =>
            LET j == loc[p].session
            IN  /\ result'[p].amount = sessions[j].amount
                /\ result'[p].amount = FeeDue(sessions, j)
                /\ sessions' = sessions /\ spots' = spots]_vars

\* a checkOut returned the fee of a stay of an hour
C19_HourChargedWitness ==
  \E p \in Procs :
    /\ pc[p] = "settled" /\ result[p].op = "checkOut" /\ result[p].status = "ok"
    /\ \E j \in SessionOf(result[p].sessionId) :
         /\ sessions[j].exitTime - sessions[j].entryTime = 60 * MsPerMinute
         /\ result[p].amount = FeeDue(sessions, j)

C21_RatePerVehicleType ==
  calcOut # NULL =>
    LET type == calcIn.vehicle.type
        stay == calcIn.exitTime - calcIn.entryTime
        rate == IF type = "MOTORCYCLE" THEN Rate(5, 10, 15)
                ELSE IF type = "BUS" THEN Rate(20, 50, 0)
                ELSE Rate(10, 20, 10)
    IN  /\ calcOut = FeeOf(calcIn.entryTime, calcIn.exitTime, rate)
        /\ (type = "BUS" /\ stay > 0 /\ stay <= 60 * MsPerMinute) => calcOut = 70
        /\ (type = "CAR" /\ stay <= 10 * MsPerMinute) => calcOut = 10

\* a session of a type outside the declared three was charged for half an hour
C21_FallbackTypeWitness ==
  /\ calcOut = 30
  /\ calcIn.vehicle.type \notin VehicleType
  /\ calcIn.exitTime - calcIn.entryTime = 30 * MsPerMinute

\* the spots of the registry that have the given id
Known(spotId) == {i \in 1..Len(spots) : spots[i].id = spotId}

\* C22: release of an id no spot has completes without error and changes no
\* spot and no session; release of a stored spot sets that spot's status to
\* AVAILABLE and changes no other field, no other spot and no session.
C22_ReleaseFrame ==
  [][\A p \in Procs :
       /\ (pc[p] = "idle" /\ pc'[p] = "release_lookup")
            => (spots' = spots /\ sessions' = sessions)
       /\ (pc[p] = "release_lookup" /\ Moved(p)) =>
            /\ sessions' = sessions
            /\ Known(loc[p].spotId) = {} =>
                 /\ spots' = spots
                 /\ pc'[p] = "settled" /\ result'[p].status = "ok"
            /\ Known(loc[p].spotId) # {} =>
                 spots' = [i \in 1..Len(spots) |->
                             IF i \in Known(loc[p].spotId)
                             THEN [spots[i] EXCEPT !.status = "AVAILABLE"]
                             ELSE spots[i]]
       /\ (pc[p] = "release_updated" /\ Moved(p)) =>
            /\ spots' = spots /\ sessions' = sessions
            /\ pc'[p] = "settled" /\ result'[p].status = "ok"]_vars

\* a release of an id no spot has completed while a spot is OCCUPIED and a
\* session is open
C22_UnknownSpotWitness ==
  \E p \in Procs :
    /\ pc[p] = "settled" /\ result[p].op = "release" /\ result[p].status = "ok"
    /\ Known(result[p].spotId) = {}
    /\ \E i \in 1..Len(spots) : spots[i].status = "OCCUPIED"
    /\ \E j \in 1..Len(sessions) : IsOpen(sessions[j])

\* the open sessions of the ledger that have the given id
OpenWithId(id) == {j \in SessionOf(id) : IsOpen(sessions[j])}

\* C23: a close for an id that no open session has (no session has it, or
\* the session that has it is closed) fails with NotFound and changes no
\* session.
C23_CloseWithoutOpenSessionFails ==
  [][\A p \in Procs :
       ( /\ pc[p] = "idle" /\ pc'[p] = "settled"
         /\ result'[p].op = "close"
         /\ OpenWithId(result'[p].sessionId) = {} )
       => /\ result'[p].status = "NotFound"
          /\ sessions' = sessions]_vars

\* C24: a create for an id some session already has fails with DuplicateId
\* and leaves the ledger as it was; the ids in the ledger are pairwise
\* distinct.
C24_CreateRejectsDuplicateId ==
  [][/\ \A p \in Procs :
          ( /\ pc[p] = "idle" /\ pc'[p] = "settled"
            /\ result'[p].op = "create"
            /\ SessionOf(result'[p].sessionId) # {} )
          => /\ result'[p].status = "DuplicateId"
             /\ sessions' = sessions
     /\ \A i, j \in 1..Len(sessions') :
          i # j => sessions'[i].id # sessions'[j].id]_vars

\* C25: a checkOut that succeeds changes, of the ledger, only the exitTime
\* and amount of the session with the given id and, of the registry, only the
\* status of the spot that session names; every other session and every other
\* spot stays as it was, at every step of the call.
C25_CheckOutFrame ==
  [][\A p \in Procs :
       /\ ( \/ pc[p] = "idle" /\ pc'[p] = "checkOut_awaited"
            \/ pc[p] = "checkOut_closed" /\ Moved(p)
            \/ pc[p] = "release_done" /\ Moved(p) )
            => (spots' = spots /\ sessions' = sessions)
       /\ (pc[p] = "checkOut_awaited" /\ pc'[p] = "checkOut_closed") =>
            /\ spots' = spots
            /\ Len(sessions') = Len(sessions)
            /\ \A j \in 1..Len(sessions) :
                 IF j \in SessionOf(loc[p].sessionId)
                 THEN [sessions'[j] EXCEPT !.exitTime = NULL, !.amount = NULL]
                        = [sessions[j] EXCEPT !.exitTime = NULL, !.amount = NULL]
                 ELSE sessions'[j] = sessions[j]
       /\ (pc[p] = "release_found" /\ Moved(p)) =>
            /\ sessions' = sessions
            /\ Len(spots') = Len(spots)
            /\ \A i \in 1..Len(spots) :
                 IF \E j \in SessionOf(loc[p].sessionId) :
                      sessions[j].spotId = spots[i].id
                 THEN [spots'[i] EXCEPT !.status = "AVAILABLE"]
                        = [spots[i] EXCEPT !.status = "AVAILABLE"]
                 ELSE spots'[i] = spots[i]]_vars

\* a checkOut succeeded while the ledger holds another closed session and
\* another open session, whose spot is still OCCUPIED
C25_OthersUntouchedWitness ==
  \E p \in Procs :
    /\ pc[p] = "settled" /\ result[p].op = "checkOut" /\ result[p].status = "ok"
    /\ \E i, j \in 1..Len(sessions) :
         /\ sessions[i].id # result[p].sessionId /\ ~IsOpen(sessions[i])
         /\ sessions[j].id # result[p].sessionId /\ IsOpen(sessions[j])
         /\ \E k \in Known(sessions[j].spotId) : spots[k].status = "OCCUPIED"

\* C26: every session of the ledger, open or closed, names by its spotId a
\* spot of the registry, and that spot's size is the session's vehicle type.
C26_SessionSpotExistsSameSize ==
  \A j \in 1..Len(sessions) :
    /\ Known(sessions[j].spotId) # {}
    /\ \A i \in Known(sessions[j].spotId) : spots[i].size = sessions[j].vehicle.type

\* the ledger holds a closed and an open session of different vehicle types
C26_TwoTypesWitness ==
  \E i, j \in 1..Len(sessions) :
    /\ ~IsOpen(sessions[i]) /\ IsOpen(sessions[j])
    /\ sessions[i].vehicle.type # sessions[j].vehicle.type
    /\ sessions[i].spotId # sessions[j].spotId

====
